---- MODULE Spec2Model ----
(***************************************************************************)
(* Outfit recommendation: the retrieval -> assembly -> featurization ->    *)
(* scoring -> top-N pipeline of src/src/recommend.py and the single-best   *)
(* selection of src/src/recommend_interface.py.                            *)
(*                                                                         *)
(* Numbers.  Ratios (style_match, season_match) are kept in units of       *)
(* 1/RatioUnit, popularity in hundredths, and a pipeline score in units of *)
(* 1/ScoreUnit.  A score is an IEEE double in the code; the model keeps    *)
(* ScoreScale * (exact value in 1/600) plus the number of ulps by which    *)
(* the double computed by the code's expression differs from the double    *)
(* nearest to the exact value, so that equality and order of two scores    *)
(* in the model are equality and order of the doubles.                     *)
(***************************************************************************)
EXTENDS Integers, Sequences, FiniteSets, TLC

VARIABLES
    items,        \* recommend.py: the catalog read from items_path
    ctx,          \* recommend.py: the context read from context_path
    order,        \* the ids the vector index ranks nearest first (I[0] without padding)
    model,        \* "none" when model_path does not exist, else the loaded model
    top_n,        \* recommend's top_n argument
    pc,           \* position inside recommend()
    candidates,   \* result of retrieve_candidates
    outfits,      \* result of assemble_outfits
    scored,       \* the (score, outfit) list after the sort
    recs,         \* out["recommendations"]
    use_llm,      \* recommend's use_llm argument
    llm_env,      \* what the explanation collaborator does during this request
    explainer,    \* recommend's local explainer: None or the OutfitExplainer held
    raised,       \* the exception that left recommend(), "no" when none did
    encoder_loads,\* SentenceTransformer(MODEL_NAME) constructions in the process
    model_loads,  \* joblib.load(model_path) calls in the process
    requests,     \* recommend() calls the process has finished
    step1,        \* the outfit_descriptions list load_catalog_from_step1 reads
    sel_context,  \* OutfitRecommender.recommend: the context argument
    sel_cands,    \* the (item, score) list _retrieve_candidates returned
    sel_pc,       \* which entry point of OutfitRecommender has run
    sel_calls,    \* number of calls of _select_best_outfit
    sel_best,     \* (selected_item, score) returned by _select_best_outfit
    sel_out,      \* the RecommendationOutput returned by recommend
    f_combo,      \* featurize_combo_for_model: the combo argument
    f_ctx,        \* featurize_combo_for_model: the context argument
    f_pc,         \* whether the featurizers have run
    f_feats,      \* the list featurize_combo_for_model returned
    f_train,      \* train.py: the value season_match_score returned
    f_train_feats,\* train.py: the values of the dict featurize_combo returned
    ld_env,       \* CatalogLoader: constructor arguments and what the environment holds
    ld_pc,        \* CatalogLoader: "new", "ready" (constructed) or "raised"
    ld_catalog,   \* self.catalog
    ld_embeddings,\* self.embeddings: None or the loaded array (its shape)
    ld_model,     \* self.embedding_model: None or the model held (name, dimension)
    ld_last,      \* the last call on the instance and what it returned
    ld_paths,     \* the search paths search_by_text has taken so far
    ld_flags,     \* the has_embeddings values get_stats has reported so far
    ld_threads    \* the threads sharing the instance: the call each is in, its result

reqVars == <<use_llm, llm_env, explainer, raised, encoder_loads, model_loads, requests, step1>>

pipeVars == <<items, ctx, order, model, top_n, pc, candidates, outfits, scored, recs, reqVars>>

selVars == <<sel_context, sel_cands, sel_pc, sel_calls, sel_best, sel_out>>

featVars == <<f_combo, f_ctx, f_pc, f_feats, f_train, f_train_feats>>

ldVars ==
    <<ld_env, ld_pc, ld_catalog, ld_embeddings, ld_model, ld_last, ld_paths, ld_flags,
      ld_threads>>

vars == <<pipeVars, selVars, featVars, ldVars>>

(***************************************************************************)
(* Bounds of the model and constants of the program.                       *)
(***************************************************************************)
MaxItems == 4          \* longest catalog of the pipeline specification
MaxCand == 8           \* longest flat candidate list given to assemble_outfits alone
MaxSel == 3            \* longest candidate list given to single-best selection
MaxCombo == 3          \* longest outfit given to the featurizers alone
MaxCat == 3            \* longest catalog held by a CatalogLoader
MaxK == 3              \* largest top_k given to the CatalogLoader searches
MaxRequests == 2       \* recommend() calls one process finishes before its last one
MaxThreads == 2        \* threads sharing one CatalogLoader
MaxStep1 == 3          \* longest outfit_descriptions list read from Step 1

TopK == 50             \* recommend(): retrieve_candidates(..., top_k=50)
AssembleCap == 5       \* assemble_outfits: tops[:5], bottoms[:5], shoes[:5]
DefaultTopN == 3       \* recommend(top_n=3)
RatioUnit == 60        \* a ratio r is kept as RatioUnit * r
ScoreScale == 10       \* room for the ulp term below one unit of 1/600
ScoreUnit == 6000      \* a score s is kept as ScoreUnit * s (+ ulps)
SelTenth == 1000       \* a retrieval score s is kept as 10 * SelTenth * s (+ ulps)
SimUnit == 1000        \* a cosine similarity or threshold x is kept as SimUnit * x
DefaultK == 5          \* search_by_text(top_k=5), search_by_attributes(top_k=5)

Min(a, b) == IF a <= b THEN a ELSE b

RECURSIVE SumSeq(_)
SumSeq(s) == IF s = <<>> THEN 0 ELSE Head(s) + SumSeq(Tail(s))

RECURSIVE Concat(_)
Concat(ss) == IF ss = <<>> THEN <<>> ELSE Head(ss) \o Concat(Tail(ss))

Range(s) == {s[i] : i \in 1..Len(s)}

(***************************************************************************)
(* Catalog items.                                                          *)
(***************************************************************************)
Item(id, role, color, style, season, pop) ==
    [item_id |-> id, role |-> role, color |-> color, style |-> style,
     season |-> season, popularity |-> pop]

Wardrobe ==
    << Item("t1", "top",    "white", "casual", "summer", 80),
       Item("b1", "bottom", "khaki", "casual", "summer", 70),
       Item("s1", "shoes",  "beige", "casual", "summer", 60),
       Item("t2", "top",    "white", "formal", "winter", 50),
       Item("b2", "bottom", "white", "casual", "summer", 40),
       Item("s2", "shoes",  "white", "casual", "summer", 30),
       Item("o1", "outer",  "black", "formal", "winter", 90) >>

\* Catalogs of distinct wardrobe items (item_id is unique catalog-wide).  The
\* pipeline reads the catalog only through the ranking of the vector index, which
\* is any permutation, and through its last element (items[-1]); so the last
\* element is any item and the ones before it are listed in wardrobe order.
IsCatalogPick(s) ==
    /\ \A i, j \in 1..Len(s) : i # j => s[i] # s[j]
    /\ \A i, j \in 1..(Len(s) - 1) : i < j => s[i] < s[j]

Catalog(s) == [ i \in 1..Len(s) |-> Wardrobe[s[i]] ]

\* preferences.colors is part of the request context; recommend.py never reads it
Context(t, st) == [user_id |-> "u1", temp_c |-> t, styles |-> st, colors |-> {"white"}]

Contexts == { Context(28, {"casual"}), Context(28, {"formal"}), Context(10, {"formal"}) }

\* the top_n arguments tried: a single recommendation and the default
TopNs == {1, DefaultTopN}

\* flat candidate lists for assemble_outfits alone: any roles in any order
Roles == {"top", "bottom", "shoes", "outer"}

IdNames == <<"c1", "c2", "c3", "c4", "c5", "c6", "c7", "c8", "c9", "c10", "c11", "c12">>

FlatList(r) == [ i \in 1..Len(r) |-> Item(IdNames[i], r[i], "white", "casual", "summer", 50) ]

Perms(n) == { p \in [1..n -> 1..n] : \A i, j \in 1..n : i # j => p[i] # p[j] }

(***************************************************************************)
(* retrieve_candidates.  index.search(ctx_emb, top_k) returns the ids of   *)
(* the min(top_k, ntotal) nearest vectors, nearest first, and fills the    *)
(* remaining slots with -1; items[-1] is Python's last element.            *)
(***************************************************************************)
IndexSearch(ord, top_k) ==
    [ i \in 1..top_k |-> IF i <= Len(ord) THEN ord[i] - 1 ELSE -1 ]

PyIndex(seq, i) == IF i >= 0 THEN seq[i + 1] ELSE seq[Len(seq) + 1 + i]

RetrieveCandidates(its, ord, top_k) ==
    LET idxs == IndexSearch(ord, top_k)
    IN  [ i \in 1..top_k |-> PyIndex(its, idxs[i]) ]

(***************************************************************************)
(* assemble_outfits.                                                       *)
(***************************************************************************)
\* mutant: a role nobody has falls back to every candidate
ByRoleOrAll(cands, r) ==
    IF \E i \in 1..Len(cands) : cands[i].role = r
    THEN SelectSeq(cands, LAMBDA c : c.role = r)
    ELSE cands

ByRole(cands, r) == SelectSeq(cands, LAMBDA c : c.role = r)

\* mutant: the slice [:5] forgotten
FirstNUncapped(s, n) == s

FirstN(s, n) == SubSeq(s, 1, Min(n, Len(s)))

\* mutant: the bottoms comprehension copied from the tops line
AssembleOutfitsCopyPaste(cands) ==
    LET tops    == FirstN(ByRole(cands, "top"), AssembleCap)
        bottoms == FirstN(ByRole(cands, "top"), AssembleCap)
        shoes   == FirstN(ByRole(cands, "shoes"), AssembleCap)
    IN  Concat([ t \in 1..Len(tops) |->
          Concat([ b \in 1..Len(bottoms) |->
            [ s \in 1..Len(shoes) |-> <<tops[t], bottoms[b], shoes[s]>> ] ]) ])

AssembleOutfits(cands) ==
    LET tops    == FirstN(ByRole(cands, "top"), AssembleCap)
        bottoms == FirstN(ByRole(cands, "bottom"), AssembleCap)
        shoes   == FirstN(ByRole(cands, "shoes"), AssembleCap)
    IN  Concat([ t \in 1..Len(tops) |->
          Concat([ b \in 1..Len(bottoms) |->
            [ s \in 1..Len(shoes) |-> <<tops[t], bottoms[b], shoes[s]>> ] ]) ])

(***************************************************************************)
(* featurize_combo_for_model.                                              *)
(***************************************************************************)
\* mutant: the thresholds compared with < instead of <=
SeasonOfExclusive(temp) ==
    IF temp < 10 THEN "winter"
    ELSE IF temp < 18 THEN "fall"
    ELSE IF temp < 24 THEN "spring"
    ELSE "summer"

SeasonOf(temp) ==
    IF temp <= 10 THEN "winter"
    ELSE IF temp <= 18 THEN "fall"
    ELSE IF temp <= 24 THEN "spring"
    ELSE "summer"

\* mutant: style_match and season_match returned in each other's place
FeaturizeSeasonBeforeStyle(combo, c) ==
    LET n == Len(combo)
        color_match == n - Cardinality({ combo[i].color : i \in 1..n })
        style_match == (RatioUnit * Cardinality({ i \in 1..n : combo[i].style \in c.styles })) \div n
        season == SeasonOf(c.temp_c)
        season_match == (RatioUnit * Cardinality({ i \in 1..n : combo[i].season = season })) \div n
        avg_pop == (RatioUnit * SumSeq([ i \in 1..n |-> combo[i].popularity ])) \div n
    IN  <<color_match, season_match, style_match, avg_pop, 0>>

FeaturizeComboForModel(combo, c) ==
    LET n == Len(combo)
        color_match == n - Cardinality({ combo[i].color : i \in 1..n })
        style_match == (RatioUnit * Cardinality({ i \in 1..n : combo[i].style \in c.styles })) \div n
        season == SeasonOf(c.temp_c)
        season_match == (RatioUnit * Cardinality({ i \in 1..n : combo[i].season = season })) \div n
        avg_pop == (RatioUnit * SumSeq([ i \in 1..n |-> combo[i].popularity ])) \div n
    IN  <<color_match, style_match, season_match, avg_pop, 0>>

(***************************************************************************)
(* Scoring.  FallbackUlp is the rounding of the double expression          *)
(* feats[1] * 0.5 + feats[2] * 0.3 + feats[0] * 0.2 on three-item outfits  *)
(* (feats[1], feats[2] in {0, 1/3, 2/3, 1}, feats[0] in {0, 1, 2}).        *)
(***************************************************************************)
FallbackUlp(feats) ==
    LET key == <<feats[1], feats[2] \div 20, feats[3] \div 20>>
    IN  IF key \in { <<0, 0, 1>>, <<0, 0, 2>>, <<0, 2, 1>>, <<1, 2, 3>>, <<1, 3, 2>>,
                     <<2, 1, 2>>, <<2, 2, 1>>, <<2, 2, 3>> } THEN -1
        ELSE IF key \in { <<1, 1, 0>>, <<1, 1, 3>>, <<1, 2, 2>>, <<2, 1, 1>>,
                          <<2, 2, 0>>, <<2, 3, 3>> } THEN 1
        ELSE 0

\* mutant: color_match divided by the number of items like the two ratios
FallbackScoreNormalized(feats) ==
    ScoreScale * (5 * feats[2] + 3 * feats[3] + (2 * RatioUnit * feats[1]) \div 3)
        + FallbackUlp(feats)

FallbackScore(feats) ==
    ScoreScale * (5 * feats[2] + 3 * feats[3] + 2 * RatioUnit * feats[1])
        + FallbackUlp(feats)

\* the trained regressor, stood for by the label it was fitted to (train.py)
ModelPredict(feats) ==
    ScoreScale * (4 * feats[2] + 3 * feats[3] + (3 * RatioUnit * feats[1]) \div 2)

ScoreOf(o, c, m) ==
    LET feats == FeaturizeComboForModel(o, c)
    IN  IF m # "none" THEN ModelPredict(feats) ELSE FallbackScore(feats)

\* an insertion that puts an element before the ones of equal score (a sort
\* that is not stable; not what list.sort does)
RECURSIVE InsertDescBeforeTies(_, _)
InsertDescBeforeTies(sorted, e) ==
    IF sorted = <<>> THEN <<e>>
    ELSE IF Head(sorted).score > e.score
         THEN <<Head(sorted)>> \o InsertDescBeforeTies(Tail(sorted), e)
         ELSE <<e>> \o sorted

\* list.sort(key=score, reverse=True): stable, equal scores keep their order
RECURSIVE InsertDesc(_, _)
InsertDesc(sorted, e) ==
    IF sorted = <<>> THEN <<e>>
    ELSE IF Head(sorted).score >= e.score
         THEN <<Head(sorted)>> \o InsertDesc(Tail(sorted), e)
         ELSE <<e>> \o sorted

RECURSIVE SortDesc(_)
SortDesc(s) ==
    IF s = <<>> THEN <<>>
    ELSE InsertDesc(SortDesc(SubSeq(s, 1, Len(s) - 1)), s[Len(s)])

ScoreAll(outs, c, m) ==
    SortDesc([ i \in 1..Len(outs) |-> [score |-> ScoreOf(outs[i], c, m), outfit |-> outs[i]] ])

\* mutant: the preference boosts of single-best selection added before truncating
MakeRecsBoosted(sc, n) ==
    LET boost(o) ==
            (IF \E k \in 1..Len(o) : o[k].color \in ctx.colors THEN ScoreUnit \div 5 ELSE 0)
          + (IF \E k \in 1..Len(o) : o[k].style \in ctx.styles THEN ScoreUnit \div 5 ELSE 0)
        bs == SortDesc([ i \in 1..Len(sc) |->
                          [score |-> sc[i].score + boost(sc[i].outfit), outfit |-> sc[i].outfit] ])
    IN  [ rank \in 1..Min(n, Len(bs)) |->
            [ rank |-> rank,
              overall_score |-> bs[rank].score,
              items |-> [ k \in 1..Len(bs[rank].outfit) |->
                            [ role |-> bs[rank].outfit[k].role,
                              item_id |-> bs[rank].outfit[k].item_id,
                              color |-> bs[rank].outfit[k].color ] ] ] ]

MakeRecs(sc, n) ==
    [ rank \in 1..Min(n, Len(sc)) |->
        [ rank |-> rank,
          overall_score |-> sc[rank].score,
          items |-> [ k \in 1..Len(sc[rank].outfit) |->
                        [ role |-> sc[rank].outfit[k].role,
                          item_id |-> sc[rank].outfit[k].item_id,
                          color |-> sc[rank].outfit[k].color ] ] ] ]

SelIdle ==
    /\ sel_context = [has_profile |-> FALSE, color_preferences |-> {}, style_preferences |-> {}]
    /\ sel_cands = <<>>
    /\ sel_pc = "idle"
    /\ sel_calls = 0
    /\ sel_best = <<>>
    /\ sel_out = <<>>

None == "None"

FeatIdle ==
    /\ f_combo = <<>>
    /\ f_ctx = None
    /\ f_pc = "idle"
    /\ f_feats = <<>>
    /\ f_train = None
    /\ f_train_feats = <<>>

\* self.embeddings is None / self.embedding_model is None / no call made yet
NoEmbeddings == [loaded |-> FALSE]

NoModel == [held |-> FALSE]

NoCall == [op |-> "none"]

LdIdle ==
    /\ ld_env = None
    /\ ld_pc = "idle"
    /\ ld_catalog = <<>>
    /\ ld_embeddings = NoEmbeddings
    /\ ld_model = NoModel
    /\ ld_last = NoCall
    /\ ld_paths = {}
    /\ ld_flags = {}
    /\ ld_threads = <<>>

(***************************************************************************)
(* Reasons and accessory suggestions of a recommendation.  OutfitExplainer *)
(* is imported from src/llm_chain.py: its constructor and its two methods  *)
(* either return or raise, and what they return is text of their choice.   *)
(* A text is the sequence of its characters.                               *)
(***************************************************************************)
RECURSIVE SetToSeq(_)
SetToSeq(S) ==
    IF S = {} THEN <<>>
    ELSE LET x == CHOOSE y \in S : TRUE IN <<x>> \o SetToSeq(S \ {x})

\* explain_outfit(combo, ctx): one sentence on the preferred styles, one on the
\* colors, one on the seasons and temp_c; a sentence is kept as its parts
ExplainOutfit(combo, c) ==
    << <<"This set matches your preferred style">> \o SetToSeq(c.styles),
       <<"Colors:">> \o [ k \in 1..Len(combo) |-> combo[k].color ],
       <<"Materials and seasonality:">> \o [ k \in 1..Len(combo) |-> combo[k].season ]
           \o <<ToString(c.temp_c)>> >>

\* str.split('\n')
RECURSIVE SplitLinesFrom(_, _)
SplitLinesFrom(t, cur) ==
    IF t = <<>> THEN <<cur>>
    ELSE IF Head(t) = "\n" THEN <<cur>> \o SplitLinesFrom(Tail(t), <<>>)
    ELSE SplitLinesFrom(Tail(t), Append(cur, Head(t)))

SplitLines(t) == SplitLinesFrom(t, <<>>)

\* str.strip()
RECURSIVE Strip(_)
Strip(l) ==
    IF l = <<>> THEN l
    ELSE IF Head(l) = " " THEN Strip(Tail(l))
    ELSE IF l[Len(l)] = " " THEN Strip(SubSeq(l, 1, Len(l) - 1))
    ELSE l

\* [r.strip() for r in reasons.split('\n') if r.strip().startswith(bullet)],
\* the bullet character written "*"
BulletLines(t) ==
    LET ls == SplitLines(t)
        keep == SelectSeq(ls, LAMBDA r : Strip(r) # <<>> /\ Head(Strip(r)) = "*")
    IN  [ i \in 1..Len(keep) |-> Strip(keep[i]) ]

\* what the collaborator does during one request: whether the import at the top
\* of recommend.py succeeded, how the constructor and the two methods end, and
\* what the methods return
Llm(has_llm, init, explain, suggest, text, accessories) ==
    [has_llm |-> has_llm, init |-> init, explain |-> explain, suggest |-> suggest,
     text |-> text, accessories |-> accessories]

NoLlm == Llm(FALSE, "ok", "ok", "ok", <<>>, <<>>)

LlmTexts ==
    { <<"*", " ", "a", "\n", " ", "*", "b", " ", "\n", "c">>, <<"n", "o">> }

LlmEnvs ==
    { NoLlm, Llm(TRUE, "ValueError", "ok", "ok", <<>>, <<>>),
      Llm(TRUE, "error", "ok", "ok", <<>>, <<>>),
      Llm(TRUE, "ok", "raise", "ok", <<>>, <<>>),
      Llm(TRUE, "ok", "ok", "raise", <<"*", "a">>, <<>>) }
    \cup { Llm(TRUE, "ok", "ok", "ok", t, <<"belt">>) : t \in LlmTexts }

\* recommend.py lines 98-104: the explainer held after initialisation, or the
\* exception that left the constructor uncaught
InitExplainer(u, e) ==
    IF u /\ e.has_llm
    THEN CASE e.init = "ok" -> [raised |-> "no", explainer |-> "held"]
           [] e.init = "ValueError" -> [raised |-> "no", explainer |-> None]
           [] OTHER -> [raised |-> "OutfitExplainer", explainer |-> None]
    ELSE [raised |-> "no", explainer |-> None]

\* the recommendations whose ranking the explainer has rearranged by the length
\* of its text (not what recommend does)
ExplainedReranked(base, sc, c, ex, e) ==
    LET n == Len(base)
        at(r) == IF ex # None /\ BulletLines(e.text) # <<>> THEN n + 1 - r ELSE r
    IN  [ r \in 1..n |->
            [ rank |-> r,
              overall_score |-> base[at(r)].overall_score,
              items |-> base[at(r)].items,
              reasons |-> IF ex # None THEN BulletLines(e.text)
                          ELSE ExplainOutfit(sc[r].outfit, c),
              accessory_suggestions |-> IF ex # None THEN e.accessories ELSE <<>> ] ]

\* the loop body of recommend.py lines 113-127 once no call has raised: the
\* ranking fields as MakeRecs builds them, plus reasons and accessories
Explained(base, sc, c, ex, e) ==
    [ r \in 1..Len(base) |->
        [ rank |-> base[r].rank,
          overall_score |-> base[r].overall_score,
          items |-> base[r].items,
          reasons |-> IF ex # None THEN BulletLines(e.text)
                      ELSE ExplainOutfit(sc[r].outfit, c),
          accessory_suggestions |-> IF ex # None THEN e.accessories ELSE <<>> ] ]

\* the exception leaving the loop of lines 112-128, "no" when none does:
\* explain_outfit and suggest_accessories are called once per recommendation
ExplainRaises(base, ex, e) ==
    IF ex = None \/ base = <<>> THEN "no"
    ELSE IF e.explain = "raise" THEN "explain_outfit"
    ELSE IF e.suggest = "raise" THEN "suggest_accessories"
    ELSE "no"

ReqIdle ==
    /\ use_llm = FALSE
    /\ llm_env = NoLlm
    /\ explainer = None
    /\ raised = "no"
    /\ encoder_loads = 0
    /\ model_loads = 0
    /\ requests = 0
    /\ step1 = <<>>

(***************************************************************************)
(* recommend(), one action per stage.                                      *)
(***************************************************************************)
Retrieve ==
    /\ pc = "start"
    /\ \E p \in Perms(Len(items)) :
         /\ order' = p
         /\ candidates' = RetrieveCandidates(items, p, TopK)
    /\ pc' = "retrieved"
    /\ encoder_loads' = encoder_loads + 1
    /\ UNCHANGED <<selVars, featVars, ldVars>>
    /\ UNCHANGED <<items, ctx, model, top_n, outfits, scored, recs>>
    /\ UNCHANGED <<use_llm, llm_env, explainer, raised, model_loads, requests, step1>>

Assemble ==
    /\ pc = "retrieved"
    /\ outfits' = AssembleOutfits(candidates)
    /\ pc' = "assembled"
    /\ UNCHANGED <<selVars, featVars, ldVars>>
    /\ UNCHANGED <<items, ctx, order, model, top_n, candidates, scored, recs, reqVars>>

\* lines 92-111: the model found at model_path is m ("none": no file, "corrupt":
\* a file joblib cannot load), use_llm is u and the collaborator behaves as e
Score(m, u, e) ==
    /\ pc = "assembled"
    /\ model' = m
    /\ use_llm' = u
    /\ llm_env' = e
    /\ model_loads' = model_loads + (IF m = "none" THEN 0 ELSE 1)
    /\ IF m = "corrupt"
         THEN /\ raised' = "joblib.load"
              /\ pc' = "raised"
              /\ UNCHANGED <<explainer, scored>>
         ELSE IF InitExplainer(u, e).raised # "no"
         THEN /\ raised' = InitExplainer(u, e).raised
              /\ pc' = "raised"
              /\ UNCHANGED <<explainer, scored>>
         ELSE /\ explainer' = InitExplainer(u, e).explainer
              /\ scored' = ScoreAll(outfits, ctx, m)
              /\ pc' = "scored"
              /\ UNCHANGED raised
    /\ UNCHANGED <<selVars, featVars, ldVars>>
    /\ UNCHANGED <<items, ctx, order, top_n, candidates, outfits, recs>>
    /\ UNCHANGED <<encoder_loads, requests, step1>>

\* lines 112-131 with top_n = n
Respond(n) ==
    /\ pc = "scored"
    /\ top_n' = n
    /\ IF ExplainRaises(MakeRecs(scored, n), explainer, llm_env) # "no"
         THEN /\ raised' = ExplainRaises(MakeRecs(scored, n), explainer, llm_env)
              /\ pc' = "raised"
              /\ UNCHANGED recs
         ELSE /\ recs' = Explained(MakeRecs(scored, n), scored, ctx, explainer, llm_env)
              /\ pc' = "done"
              /\ UNCHANGED raised
    /\ UNCHANGED <<selVars, featVars, ldVars>>
    /\ UNCHANGED <<items, ctx, order, model, candidates, outfits, scored>>
    /\ UNCHANGED <<use_llm, llm_env, explainer, encoder_loads, model_loads, requests, step1>>

Init ==
    /\ \E n \in 1..MaxItems : \E s \in [1..n -> 1..Len(Wardrobe)] :
         IsCatalogPick(s) /\ items = Catalog(s)
    /\ ctx \in Contexts
    /\ order = <<>>
    /\ model = "none"
    /\ top_n = DefaultTopN
    /\ pc = "start"
    /\ candidates = <<>>
    /\ outfits = <<>>
    /\ scored = <<>>
    /\ recs = <<>>
    /\ ReqIdle
    /\ SelIdle
    /\ FeatIdle
    /\ LdIdle

\* one request with use_llm left at its default and a model file that is either
\* absent or loads
Next ==
    \/ Retrieve
    \/ Assemble
    \/ \E m \in {"none", "lgbm"} : Score(m, FALSE, NoLlm)
    \/ \E n \in TopNs : Respond(n)

Spec == Init /\ [][Next]_vars

(***************************************************************************)
(* assemble_outfits called on its own with an arbitrary flat list.         *)
(***************************************************************************)
InitAssemble ==
    /\ items = <<>>
    /\ ctx = Context(28, {"casual"})
    /\ order = <<>>
    /\ model = "none"
    /\ top_n = DefaultTopN
    /\ pc = "retrieved"
    /\ \E n \in 0..MaxCand : \E r \in [1..n -> Roles] : candidates = FlatList(r)
    /\ outfits = <<>>
    /\ scored = <<>>
    /\ recs = <<>>
    /\ ReqIdle
    /\ SelIdle
    /\ FeatIdle
    /\ LdIdle

NextAssemble == Assemble

SpecAssemble == InitAssemble /\ [][NextAssemble]_vars

(***************************************************************************)
(* recommend() over one catalog whose outfits tie, with every outcome of   *)
(* the model file and of the explanation collaborator.                     *)
(***************************************************************************)
\* t1, b1, s1, b2, s2, o1: the outfits [t1, b1, s2] and [t1, b2, s1] score alike
RankCatalog == Catalog(<<1, 2, 3, 5, 6, 7>>)

ModelFiles == {"none", "lgbm", "corrupt"}

InitRank ==
    /\ items = RankCatalog
    /\ ctx \in Contexts
    /\ order = <<>>
    /\ model = "none"
    /\ top_n = DefaultTopN
    /\ pc = "start"
    /\ candidates = <<>>
    /\ outfits = <<>>
    /\ scored = <<>>
    /\ recs = <<>>
    /\ ReqIdle
    /\ SelIdle
    /\ FeatIdle
    /\ LdIdle

NextRank ==
    \/ Retrieve
    \/ Assemble
    \/ \E m \in ModelFiles, u \in BOOLEAN, e \in LlmEnvs : Score(m, u, e)
    \/ \E n \in TopNs : Respond(n)

SpecRank == InitRank /\ [][NextRank]_vars

(***************************************************************************)
(* One process calling recommend() several times on the same files.        *)
(***************************************************************************)
\* the next call of recommend(): its locals start afresh, the counters of the
\* process go on
NewRequest ==
    /\ pc \in {"done", "raised"}
    /\ requests < MaxRequests
    /\ requests' = requests + 1
    /\ pc' = "start"
    /\ ctx' \in Contexts
    /\ order' = <<>>
    /\ model' = "none"
    /\ top_n' = DefaultTopN
    /\ candidates' = <<>>
    /\ outfits' = <<>>
    /\ scored' = <<>>
    /\ recs' = <<>>
    /\ use_llm' = FALSE
    /\ llm_env' = NoLlm
    /\ explainer' = None
    /\ raised' = "no"
    /\ UNCHANGED <<items, encoder_loads, model_loads, step1>>
    /\ UNCHANGED <<selVars, featVars, ldVars>>

InitProcess ==
    /\ items = Catalog(<<1, 2, 3>>)
    /\ ctx \in Contexts
    /\ order = <<>>
    /\ model = "none"
    /\ top_n = DefaultTopN
    /\ pc = "start"
    /\ candidates = <<>>
    /\ outfits = <<>>
    /\ scored = <<>>
    /\ recs = <<>>
    /\ ReqIdle
    /\ SelIdle
    /\ FeatIdle
    /\ LdIdle

NextProcess ==
    \/ Retrieve
    \/ Assemble
    \/ \E m \in {"none", "lgbm"} : Score(m, FALSE, NoLlm)
    \/ \E n \in TopNs : Respond(n)
    \/ NewRequest

SpecProcess == InitProcess /\ [][NextProcess]_vars

(***************************************************************************)
(* OutfitRecommender (recommend_interface.py): single-best selection.      *)
(* A retrieval score is a double; the model keeps SelTenth * (tenths) plus *)
(* the ulps by which the double differs from the nearest double of the     *)
(* exact decimal.  FloatAdd02 is the double addition x + 0.2 on the values *)
(* reachable from the tenths 0.0 .. 1.0 by at most two such additions:     *)
(* 0.1 + 0.2 = 0.30000000000000004, 0.4 + 0.2 = 0.6000000000000001,        *)
(* 0.7 + 0.2 = 0.8999999999999999, and back onto the exact double from     *)
(* 0.30000000000000004 and 0.6000000000000001.                             *)
(***************************************************************************)
EmptyDict == [ k \in {} |-> k ]

Get(d, k, default) == IF k \in DOMAIN d THEN d[k] ELSE default

FloatAdd02(x) ==
    CASE x = 1 * SelTenth     -> 3 * SelTenth + 1
      [] x = 3 * SelTenth + 1 -> 5 * SelTenth
      [] x = 4 * SelTenth     -> 6 * SelTenth + 1
      [] x = 6 * SelTenth + 1 -> 8 * SelTenth
      [] x = 7 * SelTenth     -> 9 * SelTenth - 1
      [] OTHER                -> x + 2 * SelTenth

SelOne == 10 * SelTenth

\* the loop body, lines 235-247: the boosts of one candidate
BoostedScore(context, item, score) ==
    LET user_colors == IF context.has_profile THEN context.color_preferences ELSE {}
        user_styles == IF context.has_profile THEN context.style_preferences ELSE {}
        after_color == IF context.has_profile /\ Get(item, "color", "None") \in user_colors
                       THEN FloatAdd02(score) ELSE score
    IN  IF context.has_profile /\ Get(item, "style", "None") \in user_styles
        THEN FloatAdd02(after_color) ELSE after_color

\* mutant: >= in place of >
RECURSIVE SelectLoopGE(_, _, _, _)
SelectLoopGE(context, cands, i, best) ==
    IF i > Len(cands) THEN best
    ELSE LET boosted == BoostedScore(context, cands[i].item, cands[i].score)
         IN  SelectLoopGE(context, cands, i + 1,
                          IF boosted >= best.score
                          THEN [item |-> cands[i].item, score |-> boosted]
                          ELSE best)

\* for item, score in candidates: ... if boosted_score > best_score: ...
RECURSIVE SelectLoop(_, _, _, _)
SelectLoop(context, cands, i, best) ==
    IF i > Len(cands) THEN best
    ELSE LET boosted == BoostedScore(context, cands[i].item, cands[i].score)
         IN  SelectLoop(context, cands, i + 1,
                        IF boosted > best.score
                        THEN [item |-> cands[i].item, score |-> boosted]
                        ELSE best)

\* mutant: the final min(best_score, 1.0) dropped
SelectBestOutfitNoClamp(context, cands) ==
    IF cands = <<>> THEN [item |-> EmptyDict, score |-> 0]
    ELSE SelectLoop(context, cands, 1, [item |-> cands[1].item, score |-> cands[1].score])

SelectBestOutfit(context, cands) ==
    IF cands = <<>> THEN [item |-> EmptyDict, score |-> 0]
    ELSE LET best == SelectLoop(context, cands, 1,
                                [item |-> cands[1].item, score |-> cands[1].score])
         IN  [item |-> best.item, score |-> Min(best.score, SelOne)]

CreateFallbackOutput ==
    [selected_outfit_id |-> "fallback", confidence_score |-> 0]

\* mutant: the "if not candidates" return dropped
RecommendFromNoGuard(context, cands) ==
    LET best == SelectBestOutfit(context, cands)
    IN  [calls |-> 1, best |-> <<best>>,
         out |-> [selected_outfit_id |-> Get(best.item, "item_id", "unknown"),
                  confidence_score |-> best.score]]

\* OutfitRecommender.recommend from the retrieved candidates on:
\* [calls, best, out] = selection calls made, what selection returned, the output
RecommendFrom(context, cands) ==
    IF cands = <<>>
    THEN [calls |-> 0, best |-> <<>>, out |-> CreateFallbackOutput]
    ELSE LET best == SelectBestOutfit(context, cands)
         IN  [calls |-> 1, best |-> <<best>>,
              out |-> [selected_outfit_id |-> Get(best.item, "item_id", "unknown"),
                       confidence_score |-> best.score]]

IfaceRecommend ==
    /\ sel_pc = "start"
    /\ LET r == RecommendFrom(sel_context, sel_cands)
       IN  /\ sel_calls' = sel_calls + r.calls
           /\ sel_best' = r.best
           /\ sel_out' = <<r.out>>
    /\ sel_pc' = "recommended"
    /\ UNCHANGED <<sel_context, sel_cands>>
    /\ UNCHANGED <<pipeVars, featVars, ldVars>>

\* _select_best_outfit called directly
SelectBest ==
    /\ sel_pc = "start"
    /\ sel_calls' = sel_calls + 1
    /\ sel_best' = <<SelectBestOutfit(sel_context, sel_cands)>>
    /\ sel_pc' = "selected"
    /\ UNCHANGED <<sel_context, sel_cands, sel_out>>
    /\ UNCHANGED <<pipeVars, featVars, ldVars>>

SelColors == {"white", "black"}
SelStyles == {"casual", "formal"}
SelScores == {4, 6, 7, 9, 10}

SelItem(i, color, style) ==
    [item_id |-> IdNames[i], color |-> color, style |-> style]

SelContexts ==
    { [has_profile |-> FALSE, color_preferences |-> {}, style_preferences |-> {}] }
    \cup { [has_profile |-> TRUE, color_preferences |-> cs, style_preferences |-> ss] :
             cs \in {{}, {"white"}}, ss \in {{}, {"casual"}} }

\* search results are sorted by score, best first
SortedDesc(sc) == \A i, j \in 1..Len(sc) : i < j => sc[i] >= sc[j]

PipeIdle ==
    /\ items = <<>>
    /\ ctx = Context(28, {"casual"})
    /\ order = <<>>
    /\ model = "none"
    /\ top_n = DefaultTopN
    /\ pc = "idle"
    /\ candidates = <<>>
    /\ outfits = <<>>
    /\ scored = <<>>
    /\ recs = <<>>
    /\ ReqIdle

InitSelect ==
    /\ PipeIdle
    /\ FeatIdle
    /\ LdIdle
    /\ sel_context \in SelContexts
    /\ \E n \in 0..MaxSel :
         \E sc \in [1..n -> SelScores], co \in [1..n -> SelColors], st \in [1..n -> SelStyles] :
           /\ SortedDesc(sc)
           /\ sel_cands = [ i \in 1..n |-> [item |-> SelItem(i, co[i], st[i]),
                                              score |-> SelTenth * sc[i]] ]
    /\ sel_pc = "start"
    /\ sel_calls = 0
    /\ sel_best = <<>>
    /\ sel_out = <<>>

NextSelect == IfaceRecommend \/ SelectBest

SpecSelect == InitSelect /\ [][NextSelect]_vars

(***************************************************************************)
(* The featurizers called on their own: featurize_combo_for_model of       *)
(* recommend.py and season_match_score of train.py, on any non-empty combo *)
(* and any integer temperature around the three thresholds.                *)
(***************************************************************************)
\* train.py season_match_score: the ratio, in units of 1/RatioUnit
SeasonMatchScore(its, target_temp) ==
    LET season == IF target_temp <= 10 THEN "winter"
                  ELSE IF target_temp <= 18 THEN "fall"
                  ELSE IF target_temp <= 24 THEN "spring"
                  ELSE "summer"
    IN  (RatioUnit * Cardinality({ i \in 1..Len(its) : its[i].season = season })) \div Len(its)

\* train.py color_match_score: len(colors) - len(set(colors))
ColorMatchScore(its) == Len(its) - Cardinality({ its[i].color : i \in 1..Len(its) })

\* a style_match_score divided by the number of preferred styles (not what
\* train.py does)
StyleMatchScoreOverPrefs(its, pref_styles) ==
    (RatioUnit * Cardinality({ i \in 1..Len(its) : its[i].style \in pref_styles }))
        \div (IF Cardinality(pref_styles) >= 1 THEN Cardinality(pref_styles) ELSE 1)

\* train.py style_match_score: matches / max(1, len(styles))
StyleMatchScore(its, pref_styles) ==
    (RatioUnit * Cardinality({ i \in 1..Len(its) : its[i].style \in pref_styles }))
        \div (IF Len(its) >= 1 THEN Len(its) ELSE 1)

\* train.py featurize_combo without item embeddings: the values of the dict in
\* the order of its keys (color_match, style_match_pref, season_match,
\* avg_popularity, ctx_item_sim)
FeaturizeCombo(combo, ctx_emb) ==
    << ColorMatchScore(combo),
       StyleMatchScore(combo, ctx_emb.styles),
       SeasonMatchScore(combo, ctx_emb.temp_c),
       (RatioUnit * SumSeq([ i \in 1..Len(combo) |-> combo[i].popularity ])) \div Len(combo),
       0 >>

Closet ==
    << Item("w1", "top",    "white", "formal", "winter", 50),
       Item("f1", "bottom", "white", "casual", "fall",   70),
       Item("p1", "shoes",  "beige", "casual", "spring", 60),
       Item("u1", "top",    "black", "sporty", "summer", 80) >>

Temps == {9, 10, 11, 18, 19, 24, 25, 26}

StyleSets == { {}, {"casual"}, {"casual", "formal"} }

Featurize ==
    /\ f_pc = "start"
    /\ f_feats' = FeaturizeComboForModel(f_combo, f_ctx)
    /\ f_train' = SeasonMatchScore(f_combo, f_ctx.temp_c)
    /\ f_train_feats' = FeaturizeCombo(f_combo, [styles |-> f_ctx.styles, temp_c |-> f_ctx.temp_c])
    /\ f_pc' = "done"
    /\ UNCHANGED <<f_combo, f_ctx>>
    /\ UNCHANGED <<pipeVars, selVars, ldVars>>

InitFeaturize ==
    /\ PipeIdle
    /\ SelIdle
    /\ LdIdle
    /\ \E n \in 1..MaxCombo : \E s \in [1..n -> 1..Len(Closet)] :
         f_combo = [ i \in 1..n |-> Closet[s[i]] ]
    /\ \E t \in Temps, st \in StyleSets : f_ctx = Context(t, st)
    /\ f_pc = "start"
    /\ f_feats = <<>>
    /\ f_train = None
    /\ f_train_feats = <<>>

NextFeaturize == Featurize

SpecFeaturize == InitFeaturize /\ [][NextFeaturize]_vars

(***************************************************************************)
(* CatalogLoader (data_loader.py).  A Python str is a sequence of          *)
(* one-character strings, so that lower(), split() and the substring test  *)
(* `keyword in text` are computed as Python computes them.  A keyword      *)
(* score is kept in units of 1/RatioUnit, a cosine similarity and a        *)
(* threshold in thousandths.                                               *)
(***************************************************************************)
LowerChar(c) ==
    CASE c = "R" -> "r" [] c = "E" -> "e" [] c = "D" -> "d" [] c = "T" -> "t"
      [] c = "U" -> "u" [] c = "L" -> "l" [] c = "S" -> "s" [] OTHER -> c

Lower(str) == [ i \in 1..Len(str) |-> LowerChar(str[i]) ]

RECURSIVE SplitFrom(_, _, _, _, _)
SplitFrom(str, i, cur, acc, keep_empty) ==
    LET flush == IF cur = <<>> /\ ~keep_empty THEN acc ELSE Append(acc, cur)
    IN  IF i > Len(str) THEN flush
        ELSE IF str[i] = " " THEN SplitFrom(str, i + 1, <<>>, flush, keep_empty)
        ELSE SplitFrom(str, i + 1, Append(cur, str[i]), acc, keep_empty)

\* mutant: str.split(" "), which keeps the empty strings between separators
SplitOnSpace(str) == SplitFrom(str, 1, <<>>, <<>>, TRUE)

\* str.split(): runs of whitespace separate, no empty strings
Split(str) == SplitFrom(str, 1, <<>>, <<>>, FALSE)

\* `k in text` on two str
Contains(k, text) ==
    \E i \in 0..(Len(text) - Len(k)) : SubSeq(text, i + 1, i + Len(k)) = k

Garment(id, title, description, color, material, style, fit, category, angle) ==
    [item_id |-> id, title |-> title, description |-> description, color |-> color,
     material |-> material, style |-> style, fit |-> fit, category |-> category,
     angle |-> angle]

\* the items catalogs are drawn from; angle is the direction of the item's row of
\* the embeddings array (g1 and g3 have the same row)
Garments ==
    << Garment("g1", <<"R", "e", "d", " ", "T", "e", "e">>, <<>>, <<"R", "e", "d">>, <<"k", "n", "i", "t">>, <<"m", "o", "d">>, <<"s", "l", "i", "m">>, <<"U", "p", "p", "e", "r">>, 0),
       Garment("g2", <<"t", "e", "e">>, <<>>, <<>>, <<>>, <<"m", "o", "d">>, <<>>, <<"u", "p", "p", "e", "r">>, 30),
       Garment("g3", <<>>, <<"t", "i", "r", "e", "d">>, <<"R", "E", "D">>, <<"k", "n", "i", "t">>, <<>>, <<"s", "l", "i", "m">>, <<"L", "o", "w", "e", "r">>, 0),
       Garment("g4", <<"k", "i", "t">>, <<>>, <<"t", "a", "n">>, <<>>, <<>>, <<>>, <<>>, 90) >>

IsInjective(s) == \A i, j \in 1..Len(s) : i # j => s[i] # s[j]

TextToSearch(item) ==
    Lower(item.title) \o <<" ">> \o Lower(item.description) \o <<" ">> \o
    Lower(item.color) \o <<" ">> \o Lower(item.material) \o <<" ">> \o Lower(item.style)

KeywordScore(item, keywords) ==
    LET text_to_search == TextToSearch(item)
    IN  Cardinality({ i \in 1..Len(keywords) : Contains(keywords[i], text_to_search) })

\* mutant: the reverse of an ascending stable sort, equal scores end up reversed
KeywordSortByReversal(results) ==
    LET asc == SortDesc([ i \in 1..Len(results) |->
                  [item |-> results[i].item, score |-> 0 - results[i].score] ])
    IN  [ i \in 1..Len(asc) |-> [item |-> asc[Len(asc) + 1 - i].item,
                                  score |-> 0 - asc[Len(asc) + 1 - i].score] ]

\* results.sort(key=lambda x: x[1], reverse=True)
KeywordSort(results) == SortDesc(results)

\* _search_by_keyword; raised is the ZeroDivisionError of score / len(keywords)
SearchByKeyword(catalog, query, top_k) ==
    LET keywords == Split(Lower(query))
        n == Len(keywords)
        score == [ i \in 1..Len(catalog) |-> KeywordScore(catalog[i], keywords) ]
        kept == SelectSeq([ i \in 1..Len(catalog) |-> i ], LAMBDA i : score[i] > 0)
    IN  IF kept # <<>> /\ n = 0
        THEN [raised |-> TRUE, results |-> <<>>]
        ELSE [raised |-> FALSE,
              results |-> FirstN(KeywordSort([ j \in 1..Len(kept) |->
                              [item |-> catalog[kept[j]],
                               score |-> Min((RatioUnit * score[kept[j]]) \div n, RatioUnit)] ]),
                            top_k)]

(***************************************************************************)
(* search_by_attributes.  An optional filter is the set of its values: {}  *)
(* is None, {v} is the str v.                                              *)
(***************************************************************************)
Truthy(f) == f # {} /\ f # {<<>>}

\* mutant: the comparison without .lower()
FilterRejectsCaseSensitive(f, value) == Truthy(f) /\ \E v \in f : value # v

\* `f and item.get(field, "").lower() != f.lower()`
FilterRejects(f, value) == Truthy(f) /\ \E v \in f : Lower(value) # Lower(v)

AttributesMatch(item, f) ==
    /\ ~FilterRejects(f.color, item.color)
    /\ ~FilterRejects(f.material, item.material)
    /\ ~FilterRejects(f.style, item.style)
    /\ ~FilterRejects(f.fit, item.fit)
    /\ ~FilterRejects(f.category, item.category)

SearchByAttributes(catalog, f, top_k) ==
    FirstN(SelectSeq(catalog, LAMBDA item : AttributesMatch(item, f)), top_k)

(***************************************************************************)
(* The embedding path of search_by_text.  Rows and the query embedding are *)
(* directions in degrees; after the normalisation of lines 247-252 their   *)
(* dot product is the cosine of the angle between them.                    *)
(***************************************************************************)
Cosine(diff) ==
    CASE diff = 0 -> SimUnit [] diff = 30 -> 866 [] diff = 60 -> 500 [] diff = 90 -> 0

\* embedding_model.encode([query]): one fixed direction per text
Encode(query) == IF Contains(<<"r", "e", "d">>, Lower(query)) THEN 0 ELSE 30

Similarities(catalog, query) ==
    [ i \in 1..Len(catalog) |->
        LET d == catalog[i].angle - Encode(query)
        IN  Cosine(IF d >= 0 THEN d ELSE 0 - d) ]

\* np.argsort(similarities): indices in ascending order of value; the default
\* kind is not stable, so equal values come in any order
ArgSorts(sims) ==
    { p \in Perms(Len(sims)) : \A i, j \in 1..Len(sims) : i < j => sims[p[i]] <= sims[p[j]] }

Reversed(seq) == [ i \in 1..Len(seq) |-> seq[Len(seq) + 1 - i] ]

\* mutant: indices below the threshold kept, the result padded up to top_k
ClearsAlways(score, threshold) == TRUE

ClearsThreshold(score, threshold) == score >= threshold

\* lines 254-267, for the permutation argsort returned
SearchByEmbedding(catalog, query, top_k, threshold, argsort) ==
    LET similarities == Similarities(catalog, query)
        top_indices == FirstN(Reversed(argsort), top_k)
        kept == SelectSeq(top_indices, LAMBDA idx : ClearsThreshold(similarities[idx], threshold))
    IN  [ j \in 1..Len(kept) |-> [item |-> catalog[kept[j]], score |-> similarities[kept[j]]] ]

(***************************************************************************)
(* CatalogLoader.__init__: loading the embeddings and finding a model.     *)
(***************************************************************************)
\* output dimension of the sentence-transformers models the code names
ModelDim(name) ==
    CASE name = "all-MiniLM-L6-v2" -> 384
      [] name = "distiluse-base-multilingual-cased-v2" -> 512
      [] name = "sentence-transformers/distiluse-base-multilingual-cased-v2" -> 512
      [] name = "paraphrase-multilingual-MiniLM-L12-v2" -> 384
      [] name = "paraphrase-xlm-r-multilingual-v1" -> 768
      [] name = "all-mpnet-base-v2" -> 768

CandidateModels ==
    << "distiluse-base-multilingual-cased-v2",
       "sentence-transformers/distiluse-base-multilingual-cased-v2",
       "paraphrase-multilingual-MiniLM-L12-v2",
       "paraphrase-xlm-r-multilingual-v1",
       "all-MiniLM-L6-v2",
       "all-mpnet-base-v2" >>

\* lines 193-204: the first candidate that loads and has the dimension emb_dim
AutoDetect(env, emb_dim) ==
    LET fits == { i \in 1..Len(CandidateModels) :
                    env.models_load /\ ModelDim(CandidateModels[i]) = emb_dim }
    IN  IF fits = {} THEN NoModel
        ELSE LET first == CHOOSE i \in fits : \A j \in fits : i <= j
             IN  [held |-> TRUE, name |-> CandidateModels[first],
                  dim |-> ModelDim(CandidateModels[first])]

\* __init__ lines 147-206: the instance state it leaves, or the exception.
\* emb_dim of line 167 is 0 for an array of one dimension; line 192 reads
\* embeddings.shape[1] outside any try block.
ConstructResult(env) ==
    LET embeddings ==
            IF env.path_exists /\ env.has_lib /\ env.load_ok
            THEN [loaded |-> TRUE, ndim |-> env.ndim, dim |-> env.dim]
            ELSE NoEmbeddings
        emb_dim == IF embeddings.ndim > 1 THEN embeddings.dim ELSE 0
        configured ==
            IF env.models_load /\ ModelDim(env.model_name) = emb_dim
            THEN [held |-> TRUE, name |-> env.model_name, dim |-> ModelDim(env.model_name)]
            ELSE NoModel
    IN  IF ~env.catalog_exists
        THEN [raised |-> "FileNotFoundError", embeddings |-> NoEmbeddings, model |-> NoModel]
        ELSE IF ~embeddings.loaded
        THEN [raised |-> "no", embeddings |-> NoEmbeddings, model |-> NoModel]
        ELSE IF configured.held
        THEN [raised |-> "no", embeddings |-> embeddings, model |-> configured]
        ELSE IF embeddings.ndim <= 1
        THEN [raised |-> "IndexError", embeddings |-> embeddings, model |-> NoModel]
        ELSE [raised |-> "no", embeddings |-> embeddings,
              model |-> AutoDetect(env, embeddings.dim)]

\* mutant: the flag as "embeddings loaded", whatever the model
HasEmbeddingsLoadedOnly(emb, mdl) == emb.loaded

\* get_stats line 382
HasEmbeddings(emb, mdl) == emb.loaded /\ mdl.held

\* search_by_text line 240
TakesKeywordPath(env, emb, mdl) == ~env.has_lib \/ ~emb.loaded \/ ~mdl.held

(***************************************************************************)
(* The calls on a CatalogLoader.                                           *)
(***************************************************************************)
Env(catalog_exists, path_exists, has_lib, load_ok, ndim, dim, model_name, models_load) ==
    [catalog_exists |-> catalog_exists, path_exists |-> path_exists, has_lib |-> has_lib,
     load_ok |-> load_ok, ndim |-> ndim, dim |-> dim, model_name |-> model_name,
     models_load |-> models_load]

\* no embeddings file: every search takes the keyword path
KeywordEnv == Env(TRUE, FALSE, TRUE, TRUE, 2, 384, "all-MiniLM-L6-v2", TRUE)

\* embeddings of the dimension of the configured model
EmbeddingEnv == Env(TRUE, TRUE, TRUE, TRUE, 2, 384, "all-MiniLM-L6-v2", TRUE)

Envs ==
    { KeywordEnv, EmbeddingEnv,
      Env(FALSE, TRUE, TRUE, TRUE, 2, 384, "all-MiniLM-L6-v2", TRUE),
      Env(TRUE, TRUE, FALSE, TRUE, 2, 384, "all-MiniLM-L6-v2", TRUE),
      Env(TRUE, TRUE, TRUE, FALSE, 2, 384, "all-MiniLM-L6-v2", TRUE),
      Env(TRUE, TRUE, TRUE, TRUE, 2, 384, "all-MiniLM-L6-v2", FALSE),
      Env(TRUE, TRUE, TRUE, TRUE, 2, 512, "all-MiniLM-L6-v2", TRUE),
      Env(TRUE, TRUE, TRUE, TRUE, 2, 100, "all-MiniLM-L6-v2", TRUE),
      Env(TRUE, TRUE, TRUE, TRUE, 1, 0, "all-MiniLM-L6-v2", TRUE),
      Env(TRUE, TRUE, TRUE, TRUE, 1, 0, "all-MiniLM-L6-v2", FALSE),
      Env(TRUE, TRUE, TRUE, TRUE, 2, 768, "all-mpnet-base-v2", TRUE),
      Env(TRUE, TRUE, TRUE, TRUE, 2, 384, "all-mpnet-base-v2", TRUE) }

Queries == { <<>>, <<" ">>, <<"r", "e", "d">>, <<"R", "E", "D", " ", "t", "e", "e">>, <<"e", "d", " ", "x", " ", "k", "i", "t">> }

\* the default threshold and one above every partial keyword score
Thresholds == {300, 900}

Filters(color, material, style, fit, category) ==
    [color |-> color, material |-> material, style |-> style, fit |-> fit,
     category |-> category]

FilterSets ==
    { Filters({}, {}, {}, {}, {}),
      Filters({<<"r", "e", "d">>}, {}, {}, {}, {}),
      Filters({<<"R", "E", "D">>}, {<<"k", "n", "i", "t">>}, {}, {}, {}),
      Filters({}, {}, {<<"M", "o", "d">>}, {}, {<<"u", "p", "p", "e", "r">>}),
      Filters({}, {}, {}, {<<"s", "l", "i", "m">>}, {<<"L", "o", "w", "e", "r">>}),
      Filters({<<>>}, {}, {}, {}, {}),
      Filters({}, {<<"k", "n", "i", "t">>}, {<<>>}, {}, {}),
      Filters({<<"t", "a", "n">>}, {}, {}, {}, {<<>>}) }

Construct ==
    /\ ld_pc = "new"
    /\ LET r == ConstructResult(ld_env)
       IN  /\ ld_pc' = IF r.raised = "no" THEN "ready" ELSE "raised"
           /\ ld_embeddings' = r.embeddings
           /\ ld_model' = r.model
           /\ ld_last' = [op |-> "init", raised |-> r.raised]
    /\ UNCHANGED <<ld_env, ld_catalog, ld_paths, ld_flags>>
    /\ UNCHANGED <<pipeVars, selVars, featVars, ld_threads>>

\* mutant: the threshold of the embedding path applied to the keyword results too
KeywordPathThresholded(catalog, query, top_k, threshold) ==
    LET r == SearchByKeyword(catalog, query, top_k)
    IN  [raised |-> r.raised,
         results |-> SelectSeq(r.results, LAMBDA e : SimUnit * e.score >= RatioUnit * threshold)]

\* line 242: the keyword path gets the query and top_k, not the threshold
KeywordPath(catalog, query, top_k, threshold) == SearchByKeyword(catalog, query, top_k)

SearchByText(query, top_k, threshold) ==
    /\ ld_pc = "ready"
    /\ IF TakesKeywordPath(ld_env, ld_embeddings, ld_model)
       THEN LET r == KeywordPath(ld_catalog, query, top_k, threshold)
            IN  /\ ld_last' = [op |-> "search_by_text", query |-> query, top_k |-> top_k,
                               threshold |-> threshold, path |-> "keyword",
                               raised |-> r.raised, results |-> r.results]
                /\ ld_paths' = ld_paths \cup {"keyword"}
       ELSE \E argsort \in ArgSorts(Similarities(ld_catalog, query)) :
                /\ ld_last' = [op |-> "search_by_text", query |-> query, top_k |-> top_k,
                               threshold |-> threshold, path |-> "embedding",
                               raised |-> FALSE,
                               results |-> SearchByEmbedding(ld_catalog, query, top_k,
                                                              threshold, argsort)]
                /\ ld_paths' = ld_paths \cup {"embedding"}
    /\ UNCHANGED <<ld_env, ld_pc, ld_catalog, ld_embeddings, ld_model, ld_flags>>
    /\ UNCHANGED <<pipeVars, selVars, featVars, ld_threads>>

SearchByAttributesCall(f, top_k) ==
    /\ ld_pc = "ready"
    /\ ld_last' = [op |-> "search_by_attributes", filters |-> f, top_k |-> top_k,
                   results |-> SearchByAttributes(ld_catalog, f, top_k)]
    /\ UNCHANGED <<ld_env, ld_pc, ld_catalog, ld_embeddings, ld_model, ld_paths, ld_flags>>
    /\ UNCHANGED <<pipeVars, selVars, featVars, ld_threads>>

GetById(item_id) ==
    /\ ld_pc = "ready"
    /\ LET found == SelectSeq(ld_catalog, LAMBDA item : item.item_id = item_id)
       IN  ld_last' = [op |-> "get_by_id", item_id |-> item_id, found |-> FirstN(found, 1)]
    /\ UNCHANGED <<ld_env, ld_pc, ld_catalog, ld_embeddings, ld_model, ld_paths, ld_flags>>
    /\ UNCHANGED <<pipeVars, selVars, featVars, ld_threads>>

GetStats ==
    /\ ld_pc = "ready"
    /\ LET flag == HasEmbeddings(ld_embeddings, ld_model)
       IN  /\ ld_last' = [op |-> "get_stats", total_items |-> Len(ld_catalog),
                          has_embeddings |-> flag]
           /\ ld_flags' = ld_flags \cup {flag}
    /\ UNCHANGED <<ld_env, ld_pc, ld_catalog, ld_embeddings, ld_model, ld_paths>>
    /\ UNCHANGED <<pipeVars, selVars, featVars, ld_threads>>

(***************************************************************************)
(* The lifetime of one loader: construction in any environment, then any   *)
(* sequence of calls.                                                      *)
(***************************************************************************)
InitLoader ==
    /\ PipeIdle
    /\ SelIdle
    /\ FeatIdle
    /\ ld_env \in Envs
    /\ ld_pc = "new"
    /\ \E n \in 0..MaxCat : \E pick \in [1..n -> 1..Len(Garments)] :
         IsInjective(pick) /\ ld_catalog = [ i \in 1..n |-> Garments[pick[i]] ]
    /\ ld_embeddings = NoEmbeddings
    /\ ld_model = NoModel
    /\ ld_last = NoCall
    /\ ld_paths = {}
    /\ ld_flags = {}
    /\ ld_threads = <<>>

NextLoader ==
    \/ Construct
    \/ \E q \in {<<>>, <<"R", "E", "D", " ", "t", "e", "e">>} : SearchByText(q, DefaultK, 300)
    \/ SearchByAttributesCall(Filters({<<"r", "e", "d">>}, {}, {}, {}, {}), DefaultK)
    \/ \E id \in {"g1", "zz"} : GetById(id)
    \/ GetStats

SpecLoader == InitLoader /\ [][NextLoader]_vars

(***************************************************************************)
(* The searches on a constructed loader: search_by_text over all queries,  *)
(* top_k and thresholds, search_by_attributes over all filters and top_k.  *)
(***************************************************************************)
InitSearch ==
    /\ PipeIdle
    /\ SelIdle
    /\ FeatIdle
    /\ ld_env \in {KeywordEnv, EmbeddingEnv}
    /\ ld_pc = "ready"
    /\ \E n \in 0..MaxCat : \E pick \in [1..n -> 1..Len(Garments)] :
         IsInjective(pick) /\ ld_catalog = [ i \in 1..n |-> Garments[pick[i]] ]
    /\ ld_embeddings = ConstructResult(ld_env).embeddings
    /\ ld_model = ConstructResult(ld_env).model
    /\ ld_last = [op |-> "init", raised |-> "no"]
    /\ ld_paths = {}
    /\ ld_flags = {}
    /\ ld_threads = <<>>

NextSearch == \E q \in Queries, k \in 0..MaxK, th \in Thresholds : SearchByText(q, k, th)

SpecSearch == InitSearch /\ [][NextSearch]_vars

InitAttributes == InitSearch /\ ld_env = KeywordEnv

NextAttributes == \E f \in FilterSets, k \in 0..MaxK : SearchByAttributesCall(f, k)

SpecAttributes == InitAttributes /\ [][NextAttributes]_vars

(***************************************************************************)
(* Threads sharing one constructed loader without a lock.  A call begins,  *)
(* other threads run, and the call returns what it computes from the       *)
(* instance's fields as they are then.                                     *)
(***************************************************************************)
Threads == 1..MaxThreads

Call(op, query, filters, item_id, top_k, threshold) ==
    [op |-> op, query |-> query, filters |-> filters, item_id |-> item_id,
     top_k |-> top_k, threshold |-> threshold]

NoFilters == Filters({}, {}, {}, {}, {})

ThreadCalls ==
    { Call("search_by_text", <<"r", "e", "d">>, NoFilters, "", DefaultK, 300),
      Call("search_by_text", <<"R", "E", "D", " ", "t", "e", "e">>, NoFilters, "", 1, 300),
      Call("search_by_attributes", <<>>, Filters({<<"r", "e", "d">>}, {}, {}, {}, {}), "",
           DefaultK, 0),
      Call("get_by_id", <<>>, NoFilters, "g1", 0, 0),
      Call("get_by_id", <<>>, NoFilters, "zz", 0, 0) }

\* what a call may return on an instance holding these fields
CallResults(env, catalog, embeddings, mdl, call) ==
    CASE call.op = "search_by_text" ->
           IF TakesKeywordPath(env, embeddings, mdl)
           THEN { KeywordPath(catalog, call.query, call.top_k, call.threshold) }
           ELSE { [raised |-> FALSE,
                   results |-> SearchByEmbedding(catalog, call.query, call.top_k,
                                                 call.threshold, argsort)] :
                  argsort \in ArgSorts(Similarities(catalog, call.query)) }
      [] call.op = "search_by_attributes" ->
           { [raised |-> FALSE,
              results |-> SearchByAttributes(catalog, call.filters, call.top_k)] }
      [] OTHER ->
           { [raised |-> FALSE,
              results |-> FirstN(SelectSeq(catalog, LAMBDA item : item.item_id = call.item_id),
                                 1)] }

\* a search that keeps only the items it found in self.catalog (not what the
\* methods do)
CatalogAfterKeepsFound(catalog, call, r) ==
    IF call.op = "search_by_text"
    THEN [ i \in 1..Len(r.results) |-> r.results[i].item ]
    ELSE r.results

\* self.catalog after a call: search_by_text, _search_by_keyword,
\* search_by_attributes and get_by_id only read it
CatalogAfter(catalog, call, r) == catalog

\* self.embeddings after a call: astype() hands search_by_text a copy, and the
\* rows normalised in place are the copy's
EmbeddingsAfter(embeddings, call) == embeddings

BeginCall(t, call) ==
    /\ ld_pc = "ready"
    /\ ld_threads[t].phase \in {"idle", "returned"}
    /\ ld_threads' = [ld_threads EXCEPT ![t] =
            [phase |-> "running", call |-> call,
             alone |-> CallResults(ld_env, ld_catalog, ld_embeddings, ld_model, call)]]
    /\ UNCHANGED <<ld_env, ld_pc, ld_catalog, ld_embeddings, ld_model, ld_last, ld_paths,
                   ld_flags>>
    /\ UNCHANGED <<pipeVars, selVars, featVars>>

ReturnCall(t) ==
    /\ ld_pc = "ready"
    /\ ld_threads[t].phase = "running"
    /\ \E r \in CallResults(ld_env, ld_catalog, ld_embeddings, ld_model, ld_threads[t].call) :
         /\ ld_threads' = [ld_threads EXCEPT ![t] =
                 [phase |-> "returned", call |-> ld_threads[t].call,
                  alone |-> ld_threads[t].alone, result |-> r,
                  during |-> { u \in Threads \ {t} : ld_threads[u].phase = "running" }]]
         /\ ld_catalog' = CatalogAfter(ld_catalog, ld_threads[t].call, r)
         /\ ld_embeddings' = EmbeddingsAfter(ld_embeddings, ld_threads[t].call)
    /\ UNCHANGED <<ld_env, ld_pc, ld_model, ld_last, ld_paths, ld_flags>>
    /\ UNCHANGED <<pipeVars, selVars, featVars>>

InitConcurrent ==
    /\ PipeIdle
    /\ SelIdle
    /\ FeatIdle
    /\ ld_env \in {KeywordEnv, EmbeddingEnv}
    /\ ld_pc = "ready"
    /\ \E n \in {MaxCat - 1, MaxCat} : ld_catalog = [ i \in 1..n |-> Garments[i] ]
    /\ ld_embeddings = ConstructResult(ld_env).embeddings
    /\ ld_model = ConstructResult(ld_env).model
    /\ ld_last = [op |-> "init", raised |-> "no"]
    /\ ld_paths = {}
    /\ ld_flags = {}
    /\ ld_threads = [ t \in Threads |-> [phase |-> "idle"] ]

NextConcurrent ==
    \E t \in Threads : ReturnCall(t) \/ \E call \in ThreadCalls : BeginCall(t, call)

SpecConcurrent == InitConcurrent /\ [][NextConcurrent]_vars

(***************************************************************************)
(* A catalog taken from Step 1 (data_loader.py) and given to recommend().  *)
(***************************************************************************)
\* a role for footwear added to the mapping (not what _map_category_to_role does)
MapCategoryToRoleWithShoes(category) ==
    LET category_lower == Lower(category)
    IN  IF Contains(<<"u", "p", "p", "e", "r">>, category_lower) THEN "top"
        ELSE IF Contains(<<"l", "o", "w", "e", "r">>, category_lower) THEN "bottom"
        ELSE IF Contains(<<"d", "r", "e", "s", "s">>, category_lower) THEN "dress"
        ELSE IF Contains(<<"s", "e", "t">>, category_lower) THEN "set"
        ELSE IF Contains(<<"s", "h", "o", "e", "s">>, category_lower) THEN "shoes"
        ELSE "other"

MapCategoryToRole(category) ==
    LET category_lower == Lower(category)
    IN  IF Contains(<<"u", "p", "p", "e", "r">>, category_lower) THEN "top"
        ELSE IF Contains(<<"l", "o", "w", "e", "r">>, category_lower) THEN "bottom"
        ELSE IF Contains(<<"d", "r", "e", "s", "s">>, category_lower) THEN "dress"
        ELSE IF Contains(<<"s", "e", "t">>, category_lower) THEN "set"
        ELSE "other"

\* the fields of an item the pipeline reads, as load_catalog_from_step1 fills them
LoadCatalogFromStep1(step1_data) ==
    [ i \in 1..Len(step1_data) |->
        [ item_id |-> "outfit_" \o ToString(i - 1),
          category |-> step1_data[i].category,
          role |-> MapCategoryToRole(step1_data[i].category),
          color |-> step1_data[i].color_primary,
          style |-> step1_data[i].style_aesthetic ] ]

\* popularity 0.5 on the scale of the wardrobe's popularity
ConvertToStandardFormat(step1_catalog) ==
    [ i \in 1..Len(step1_catalog) |->
        [ item_id |-> step1_catalog[i].item_id,
          role |-> step1_catalog[i].role,
          color |-> step1_catalog[i].color,
          style |-> step1_catalog[i].style,
          category |-> step1_catalog[i].category,
          available |-> TRUE,
          popularity |-> 50 ] ]

Step1Categories ==
    { <<"U", "p", "p", "e", "r">>, <<"L", "o", "w", "e", "r">>, <<"D", "r", "e", "s", "s">>,
      <<"S", "e", "t">>, <<"S", "h", "o", "e", "s">> }

Step1Outfit(category) ==
    [category |-> category, color_primary |-> "white", style_aesthetic |-> "casual"]

\* the catalog file recommend() reads is the converted Step 1 catalog
LoadStep1 ==
    /\ pc = "step1"
    /\ items' = ConvertToStandardFormat(LoadCatalogFromStep1(step1))
    /\ pc' = "start"
    /\ UNCHANGED <<ctx, order, model, top_n, candidates, outfits, scored, recs, reqVars>>
    /\ UNCHANGED <<selVars, featVars, ldVars>>

InitStep1 ==
    /\ items = <<>>
    /\ ctx = Context(28, {"casual"})
    /\ order = <<>>
    /\ model = "none"
    /\ top_n = DefaultTopN
    /\ pc = "step1"
    /\ candidates = <<>>
    /\ outfits = <<>>
    /\ scored = <<>>
    /\ recs = <<>>
    /\ use_llm = FALSE
    /\ llm_env = NoLlm
    /\ explainer = None
    /\ raised = "no"
    /\ encoder_loads = 0
    /\ model_loads = 0
    /\ requests = 0
    /\ \E n \in 1..MaxStep1 : \E cats \in [1..n -> Step1Categories] :
         step1 = [ i \in 1..n |-> Step1Outfit(cats[i]) ]
    /\ SelIdle
    /\ FeatIdle
    /\ LdIdle

NextStep1 ==
    \/ LoadStep1
    \/ Retrieve
    \/ Assemble
    \/ \E m \in {"none", "lgbm"} : Score(m, FALSE, NoLlm)
    \/ \E n \in TopNs : Respond(n)

SpecStep1 == InitStep1 /\ [][NextStep1]_vars

(***************************************************************************)
(* Properties.                                                             *)
(***************************************************************************)
MandatoryRoles == <<"top", "bottom", "shoes">>

RolePositions(r) == { i \in 1..Len(candidates) : candidates[i].role = r }

\* the position in candidates of the k-th item of role r
NthPos(r, k) ==
    CHOOSE i \in RolePositions(r) : Cardinality({ j \in RolePositions(r) : j <= i }) = k

CappedCount(r) == Min(Cardinality(RolePositions(r)), 5)

Assembled == pc \in {"assembled", "scored", "done"}

\* C1: assemble_outfits returns exactly the triples of (first 5 tops) x (first 5
\* bottoms) x (first 5 shoes), each partition in the order received, tops outer,
\* bottoms middle, shoes inner; other roles are ignored, so the output has
\* min(T,5) * min(B,5) * min(S,5) candidates.
C1_AssembleIsCappedProduct ==
    Assembled =>
        LET nT == CappedCount("top")
            nB == CappedCount("bottom")
            nS == CappedCount("shoes")
        IN  /\ Len(outfits) = nT * nB * nS
            /\ \A a \in 1..nT, b \in 1..nB, c \in 1..nS :
                  outfits[((a - 1) * nB + (b - 1)) * nS + c] =
                      << candidates[NthPos("top", a)],
                         candidates[NthPos("bottom", b)],
                         candidates[NthPos("shoes", c)] >>

C1_Witness ==
    /\ pc = "assembled"
    /\ Cardinality(RolePositions("top")) > 5
    /\ Len(outfits) = 5

IsOutfitShape(its) ==
    /\ Len(its) = 3
    /\ \A k \in 1..3 : its[k].role = MandatoryRoles[k]
    /\ \A j, k \in 1..3 : j # k => its[j].item_id # its[k].item_id

\* C2: every outfit candidate of assemble_outfits and every items list of a
\* recommendation holds exactly three items with roles top, bottom, shoes in that
\* order, and no item_id twice, for catalogs with unique item_ids.
C2_ThreeDistinctRoles ==
    /\ \A i \in 1..Len(outfits) : IsOutfitShape(outfits[i])
    /\ \A r \in 1..Len(recs) : IsOutfitShape(recs[r].items)

C2_Witness ==
    /\ pc = "done"
    /\ Len(recs) >= 2
    /\ Cardinality(Range(outfits)) >= 2

MissingRole ==
    ~({"top", "bottom", "shoes"} \subseteq { candidates[i].role : i \in 1..Len(candidates) })

\* C3: with no candidate in some mandatory role, assemble_outfits returns the
\* empty list, the scoring and response stages that follow it can run on that
\* empty list, and recommend ends with an empty recommendations list.
C3_EmptyWhenRoleMissing ==
    (pc # "start" /\ MissingRole) =>
        /\ outfits = <<>>
        /\ pc = "done" => recs = <<>>
        /\ pc \in {"assembled", "scored"} => ENABLED Next

C3_Witness ==
    /\ pc = "done"
    /\ MissingRole
    /\ Len(items) >= 2
    /\ recs = <<>>

T1 == Item("t1", "top",    "white", "casual", "summer", 80)
B1 == Item("b1", "bottom", "khaki", "casual", "summer", 70)
S1 == Item("s1", "shoes",  "beige", "casual", "summer", 60)

\* C4: for the catalog {t1, b1, s1}, styles = [casual], temp_c = 28 and no ranking
\* model, the pipeline produces exactly one candidate [t1, b1, s1] with
\* style_match_ratio 1.0, season_match_ratio 1.0, color_match 0 and score 0.8.
C4_EndToEndExample ==
    ( /\ pc \in {"scored", "done"}
      /\ Len(items) = 3 /\ Range(items) = {T1, B1, S1}
      /\ ctx.styles = {"casual"} /\ ctx.temp_c = 28
      /\ model = "none" ) =>
        /\ outfits = << <<T1, B1, S1>> >>
        /\ Len(scored) = 1
        /\ scored[1].outfit = <<T1, B1, S1>>
        /\ scored[1].score = (8 * ScoreUnit) \div 10
        /\ LET f == FeaturizeComboForModel(<<T1, B1, S1>>, ctx)
           IN  f[1] = 0 /\ f[2] = RatioUnit /\ f[3] = RatioUnit

\* C5: every recommendation returned by recommend has overall_score within [0,1].
C5_ScoreInUnitInterval ==
    \A r \in 1..Len(recs) :
        recs[r].overall_score >= 0 /\ recs[r].overall_score <= ScoreUnit

\* the boost the claim gives an outfit: 0.2 per matched preference category
ClaimBoost(o) ==
      (IF \E k \in 1..Len(o) : o[k].color \in ctx.colors THEN ScoreUnit \div 5 ELSE 0)
    + (IF \E k \in 1..Len(o) : o[k].style \in ctx.styles THEN ScoreUnit \div 5 ELSE 0)

RecIds(rec) == [ k \in 1..Len(rec.items) |-> rec.items[k].item_id ]

OutfitIds(o) == [ k \in 1..Len(o) |-> o[k].item_id ]

NBoosts(c) ==
    IF ~sel_context.has_profile THEN 0
    ELSE (IF c.item.color \in sel_context.color_preferences THEN 1 ELSE 0)
       + (IF c.item.style \in sel_context.style_preferences THEN 1 ELSE 0)

\* base + 0.2 per matched preference category, in double arithmetic
Boosted(c) ==
    CASE NBoosts(c) = 0 -> c.score
      [] NBoosts(c) = 1 -> FloatAdd02(c.score)
      [] OTHER          -> FloatAdd02(FloatAdd02(c.score))

MaxBoosted ==
    CHOOSE m \in { Boosted(sel_cands[i]) : i \in 1..Len(sel_cands) } :
        \A i \in 1..Len(sel_cands) : Boosted(sel_cands[i]) <= m

FirstMaxBoosted ==
    CHOOSE k \in 1..Len(sel_cands) :
        /\ Boosted(sel_cands[k]) = MaxBoosted
        /\ \A i \in 1..(k - 1) : Boosted(sel_cands[i]) < MaxBoosted

\* C7 as stated: the first candidate enters with its base score and only the other
\* candidates are boosted and compared (strictly) against the current best.
C7_FirstNotBoosted ==
    (sel_pc = "selected" /\ sel_cands # <<>>) =>
        sel_best[1].item =
            SelectLoop(sel_context, sel_cands, 2,
                       [item |-> sel_cands[1].item, score |-> sel_cands[1].score]).item

\* C7 amended: the boosted score is computed for every candidate, the first one
\* included, and a candidate replaces the current best only when its boosted score
\* strictly exceeds it: the item returned is the earliest candidate whose boosted
\* score is the largest.
C7_FirstOfMaxBoosted ==
    (sel_pc = "selected" /\ sel_cands # <<>>) =>
        sel_best[1].item = sel_cands[FirstMaxBoosted].item

C7_Witness ==
    /\ sel_pc = "selected"
    /\ Len(sel_cands) >= 3
    /\ NBoosts(sel_cands[1]) > 0
    /\ FirstMaxBoosted = 2
    /\ Boosted(sel_cands[3]) = MaxBoosted
    /\ sel_best[1].item = sel_cands[2].item

\* C8: the confidence returned by _select_best_outfit, and so confidence_score of
\* every RecommendationOutput, is at most 1.0: it is min(best boosted score, 1.0).
C8_ConfidenceClamped ==
    /\ sel_pc = "selected" =>
          /\ sel_best[1].score <= SelOne
          /\ sel_cands # <<>> => sel_best[1].score = Min(MaxBoosted, SelOne)
    /\ sel_pc = "recommended" =>
          /\ sel_out[1].confidence_score <= SelOne
          /\ sel_cands # <<>> => sel_out[1].confidence_score = Min(MaxBoosted, SelOne)

C8_Witness ==
    /\ sel_pc = "recommended"
    /\ sel_cands # <<>>
    /\ MaxBoosted > SelOne
    /\ sel_out[1].confidence_score = SelOne

\* C9: with an empty candidate list recommend returns the no-recommendation result
\* (selected_outfit_id "fallback", confidence_score 0.0) without running selection,
\* and _select_best_outfit on an empty list returns ({}, 0.0).
C9_EmptyCandidates ==
    sel_cands = <<>> =>
        /\ sel_pc = "start" => ENABLED IfaceRecommend /\ ENABLED SelectBest
        /\ sel_pc = "recommended" =>
              /\ sel_out[1].selected_outfit_id = "fallback"
              /\ sel_out[1].confidence_score = 0
              /\ sel_calls = 0
        /\ sel_pc = "selected" =>
              /\ sel_best[1].item = EmptyDict
              /\ sel_best[1].score = 0

C9_Witness ==
    /\ sel_cands = <<>>
    /\ sel_pc = "recommended"
    /\ sel_context.has_profile
    /\ sel_out # <<>>

(***************************************************************************)
(* Fallback scoring.                                                       *)
(***************************************************************************)
ScoredFeats(i) == FeaturizeComboForModel(scored[i].outfit, ctx)

\* the (feature vector, score) pairs of the scored candidates
FeatsAndScores == { <<ScoredFeats(i), scored[i].score>> : i \in 1..Len(scored) }

\* C10: with no trained model the score of a candidate is 0.5 * style_match_ratio
\* + 0.3 * season_match_ratio + 0.2 * color_match (the raw duplicate count), a
\* function of the feature vector alone: equal feature vectors get equal scores.
C10_FallbackFormula ==
    (model = "none" /\ pc \in {"scored", "done"}) =>
        /\ \A p \in FeatsAndScores :
              RatioUnit * (p[2] - FallbackUlp(p[1])) =
                  (ScoreUnit \div 2) * p[1][2] + ((3 * ScoreUnit) \div 10) * p[1][3]
                      + (ScoreUnit \div 5) * RatioUnit * p[1][1]
        /\ \A p, q \in FeatsAndScores : p[1] = q[1] => p[2] = q[2]

C10_Witness ==
    /\ pc = "scored"
    /\ model = "none"
    /\ \E i, j \in 1..Len(scored) :
          /\ scored[i].outfit # scored[j].outfit
          /\ ScoredFeats(i)[1] = 2
          /\ ScoredFeats(j)[1] = 1
          /\ scored[i].score > scored[j].score

\* the season the claim's table gives for an integer temperature
TableSeason(t) ==
    CASE t <= 10 -> "winter"
      [] t \in 11..18 -> "fall"
      [] t \in 19..24 -> "spring"
      [] t >= 25 -> "summer"

SeasonCount(season) == Cardinality({ i \in 1..Len(f_combo) : f_combo[i].season = season })

\* C11: the season inferred from temp_c is winter up to 10, fall for 11..18,
\* spring for 19..24 and summer from 25 on, and season_match_ratio (in both
\* featurizers) is the fraction of the outfit's items of that season.
C11_SeasonThresholds ==
    f_pc = "done" =>
        /\ Len(f_combo) * f_feats[3] = RatioUnit * SeasonCount(TableSeason(f_ctx.temp_c))
        /\ Len(f_combo) * f_train = RatioUnit * SeasonCount(TableSeason(f_ctx.temp_c))

C11_Witness ==
    /\ f_pc = "done"
    /\ f_ctx.temp_c = 18
    /\ Len(f_combo) = 3
    /\ SeasonCount("fall") = 2
    /\ SeasonCount("spring") = 1
    /\ f_feats[3] = 2 * (RatioUnit \div 3)
    /\ f_train = f_feats[3]

\* C12: featurize_combo_for_model returns five values in the order color_match,
\* style_match_ratio, season_match_ratio, avg_popularity, embedding similarity;
\* color_match is len - distinct colors, an integer in [0, n-1], both ratios are
\* in [0,1], and the fifth value is 0.0.
C12_FeatureVector ==
    f_pc = "done" =>
        LET n == Len(f_combo)
        IN  /\ Len(f_feats) = 5
            /\ f_feats[1] = n - Cardinality({ f_combo[i].color : i \in 1..n })
            /\ f_feats[1] \in 0..(n - 1)
            /\ n * f_feats[2] =
                 RatioUnit * Cardinality({ i \in 1..n : f_combo[i].style \in f_ctx.styles })
            /\ f_feats[2] \in 0..RatioUnit
            /\ n * f_feats[3] = RatioUnit * SeasonCount(SeasonOf(f_ctx.temp_c))
            /\ f_feats[3] \in 0..RatioUnit
            /\ n * f_feats[4] = RatioUnit * SumSeq([ i \in 1..n |-> f_combo[i].popularity ])
            /\ f_feats[5] = 0

C12_Witness ==
    /\ f_pc = "done"
    /\ Len(f_combo) = 3
    /\ f_feats[1] = 2
    /\ f_feats[2] = RatioUnit
    /\ f_feats[3] = 0
    /\ f_feats[5] = 0

KeywordCall == ld_last.op = "search_by_text" /\ ld_last.path = "keyword"

EmbeddingCall == ld_last.op = "search_by_text" /\ ld_last.path = "embedding"

\* C13: on the keyword path a query with no token (empty, or whitespace only)
\* returns the empty list and raises nothing, whatever the catalog.
C13_EmptyQuery ==
    (KeywordCall /\ \A i \in 1..Len(ld_last.query) : ld_last.query[i] = " ") =>
        /\ ~ld_last.raised
        /\ ld_last.results = <<>>

C13_Witness ==
    /\ KeywordCall
    /\ ld_last.query = <<" ">>
    /\ Len(ld_catalog) = 2
    /\ ld_last.top_k >= 1
    /\ ~ld_last.raised
    /\ ld_last.results = <<>>

\* the position of an item in the loader's catalog (item_ids are unique)
CatalogPos(item) == CHOOSE i \in 1..Len(ld_catalog) : ld_catalog[i] = item

SortedWithStableTies(results) ==
    \A i, j \in 1..Len(results) :
        i < j => \/ results[i].score > results[j].score
                 \/ /\ results[i].score = results[j].score
                    /\ CatalogPos(results[i].item) < CatalogPos(results[j].item)

\* C14: keyword-path results are in descending order of score, and results of
\* equal score are in catalog insertion order.
C14_KeywordSortedStable == KeywordCall => SortedWithStableTies(ld_last.results)

C14_Witness ==
    /\ KeywordCall
    /\ Len(ld_last.results) = 3
    /\ ld_last.results[1].score > ld_last.results[2].score
    /\ ld_last.results[2].score = ld_last.results[3].score
    /\ CatalogPos(ld_last.results[1].item) > CatalogPos(ld_last.results[3].item)

\* C15: embedding-path results are in descending order of similarity, and results
\* of equal similarity are in catalog insertion order.
C15_EmbeddingSortedStable == EmbeddingCall => SortedWithStableTies(ld_last.results)

\* the catalog positions whose similarity to the last query clears its threshold
Clearing ==
    { i \in 1..Len(ld_catalog) :
        Similarities(ld_catalog, ld_last.query)[i] >= ld_last.threshold }

\* C16: the embedding path returns only items with similarity >= threshold, the
\* best-scoring ones, exactly min(top_k, c) of them when c items clear the
\* threshold.
C16_ThresholdNoPadding ==
    EmbeddingCall =>
        LET res == ld_last.results
            sims == Similarities(ld_catalog, ld_last.query)
        IN  /\ \A i \in 1..Len(res) :
                 /\ res[i].score >= ld_last.threshold
                 /\ res[i].score = sims[CatalogPos(res[i].item)]
            /\ \A i, j \in 1..Len(res) : i # j => res[i].item # res[j].item
            /\ Len(res) = Min(ld_last.top_k, Cardinality(Clearing))
            /\ \A k \in 1..Len(ld_catalog) :
                 (\A i \in 1..Len(res) : res[i].item # ld_catalog[k]) =>
                     \A i \in 1..Len(res) : sims[k] <= res[i].score

C16_Witness ==
    /\ EmbeddingCall
    /\ Len(ld_catalog) = 3
    /\ ld_last.top_k = 3
    /\ Cardinality(Clearing) = 2
    /\ Len(ld_last.results) = 2

\* the number of tokens of the last query found in an item's text
Matches(item) ==
    LET tokens == Split(Lower(ld_last.query))
    IN  Cardinality({ t \in 1..Len(tokens) : Contains(tokens[t], TextToSearch(item)) })

Matching == { i \in 1..Len(ld_catalog) : Matches(ld_catalog[i]) > 0 }

\* C17: for a query with at least one token the keyword path scores an item
\* matches / token_count, returns only items with a match, filters by no
\* threshold, keeps every score in (0,1] and returns at most top_k items.
C17_KeywordScore ==
    (KeywordCall /\ Len(Split(ld_last.query)) >= 1) =>
        LET res == ld_last.results
            n == Len(Split(ld_last.query))
        IN  /\ ~ld_last.raised
            /\ \A i \in 1..Len(res) :
                 /\ Matches(res[i].item) > 0
                 /\ n * res[i].score = RatioUnit * Matches(res[i].item)
                 /\ res[i].score > 0 /\ res[i].score <= RatioUnit
            /\ \A i, j \in 1..Len(res) : i # j => res[i].item # res[j].item
            /\ Len(res) = Min(ld_last.top_k, Cardinality(Matching))

C17_Witness ==
    /\ KeywordCall
    /\ Len(Split(ld_last.query)) = 3
    /\ ld_last.threshold = 900
    /\ Len(ld_last.results) = 3
    /\ \A i \in 1..3 : 3 * ld_last.results[i].score = RatioUnit

AttributesCall == ld_last.op = "search_by_attributes"

FilterNames == {"color", "material", "style", "fit", "category"}

\* item matches every filter among `which` by case-insensitive equality
MatchesFilters(item, f, which) ==
    \A name \in which : \A v \in f[name] : Lower(item[name]) = Lower(v)

DimensionMismatch ==
    /\ ld_env.catalog_exists /\ ld_env.path_exists /\ ld_env.has_lib /\ ld_env.load_ok
    /\ ld_env.models_load
    /\ (ld_env.ndim # 2 \/ ModelDim(ld_env.model_name) # ld_env.dim)

\* C19: when the configured encoder's dimension differs from that of the stored
\* embeddings (arrays that are not 2-dimensional included), construction ends
\* without raising and every later search_by_text takes the keyword path.
C19_MismatchDisablesEmbedding ==
    (ld_pc \in {"ready", "raised"} /\ DimensionMismatch) =>
        /\ ld_pc = "ready"
        /\ ~ld_model.held
        /\ ld_paths \subseteq {"keyword"}

\* C20: has_embeddings of get_stats is true exactly when search_by_text takes the
\* embedding path, and neither changes over the calls on one instance.
C20_FlagMatchesPath ==
    ld_pc = "ready" =>
        /\ Cardinality(ld_flags) <= 1
        /\ Cardinality(ld_paths) <= 1
        /\ \A flag \in ld_flags : \A path \in ld_paths : flag <=> (path = "embedding")
        /\ (ld_last.op = "get_stats" /\ ld_paths # {}) =>
               (ld_last.has_embeddings <=> ld_paths = {"embedding"})

C20_Witness ==
    /\ ld_pc = "ready"
    /\ ld_env.dim = 512
    /\ ld_flags = {TRUE}
    /\ ld_paths = {"embedding"}
    /\ ld_last.op = "get_by_id"

\* C21: construction fails exactly when the catalog file is missing, then with
\* FileNotFoundError and before any embedding or model is loaded; a missing or
\* failing embeddings file or encoder never makes it fail.
C21_OnlyMissingCatalogFatal ==
    ld_pc \in {"ready", "raised"} =>
        /\ ~ld_env.catalog_exists =>
               /\ ld_pc = "raised"
               /\ ld_last = [op |-> "init", raised |-> "FileNotFoundError"]
               /\ ~ld_embeddings.loaded
               /\ ~ld_model.held
        /\ ld_env.catalog_exists => ld_pc = "ready"


\* C22: when the model file is missing or cannot be loaded, recommend does not
\* raise because of it and scores every candidate with the fallback formula.
C22_ModelUnavailableRecovers ==
    (pc \in {"scored", "done", "raised"} /\ model \in {"none", "corrupt"}) =>
        /\ raised # "joblib.load"
        /\ raised = "no" => scored = ScoreAll(outfits, ctx, "none")

\* the collaborator failed during the request: its constructor raised, or one of
\* its methods does and was called for at least one recommendation
ExplanationFailed ==
    /\ use_llm
    /\ llm_env.has_llm
    /\ model # "corrupt"
    /\ \/ llm_env.init # "ok"
       \/ /\ scored # <<>>
          /\ llm_env.explain = "raise" \/ llm_env.suggest = "raise"

\* C23: when the explanation collaborator fails during a use_llm request, the
\* request still returns and its recommendations carry the heuristic reasons.
C23_ExplanationFailureRecovered ==
    (pc \in {"done", "raised"} /\ ExplanationFailed) =>
        /\ raised = "no"
        /\ pc = "done"
        /\ \A r \in 1..Len(recs) : recs[r].reasons = ExplainOutfit(scored[r].outfit, ctx)

\* the ranking a response carries: rank, score and items of each recommendation
RankingOf(rs) ==
    [ r \in 1..Len(rs) |->
        [rank |-> rs[r].rank, overall_score |-> rs[r].overall_score, items |-> rs[r].items] ]

\* C24: the ranking returned is the one computed from the catalog, the context
\* and the model alone, whatever use_llm is and whatever the collaborator returns.
C24_RankingIgnoresExplainer ==
    pc = "done" => RankingOf(recs) = MakeRecs(ScoreAll(outfits, ctx, model), top_n)

C24_Witness ==
    /\ pc = "done"
    /\ use_llm
    /\ explainer # None
    /\ Len(recs) >= 2
    /\ recs[1].overall_score > recs[2].overall_score
    /\ recs[1].reasons = << <<"*", " ", "a">>, <<"*", "b">> >>
    /\ recs[1].accessory_suggestions = <<"belt">>

\* C25: over all the requests of one process the embedding encoder is
\* constructed at most once and the ranking model is loaded at most once.
C25_LoadedOnce == encoder_loads <= 1 /\ model_loads <= 1

\* C26: no call of search_by_text, search_by_attributes or get_by_id changes the
\* catalog or the embeddings of the shared loader, and whatever the other threads
\* do meanwhile, a call returns a result it could return when run alone.
C26_SharedLoaderReadOnly ==
    /\ [][ld_catalog' = ld_catalog /\ ld_embeddings' = ld_embeddings]_vars
    /\ [](\A t \in DOMAIN ld_threads :
             ld_threads[t].phase = "returned" =>
                 ld_threads[t].result \in ld_threads[t].alone)

C26_Witness ==
    /\ ld_threads # <<>>
    /\ ld_threads[1].phase = "returned"
    /\ ld_threads[1].call.op = "search_by_text"
    /\ ld_threads[1].result.results # <<>>
    /\ 2 \in ld_threads[1].during
    /\ ld_threads[2].phase = "returned"
    /\ ld_threads[2].call.op = "search_by_attributes"
    /\ ld_threads[2].result.results # <<>>

\* the score recommend gives the i-th assembled outfit, and the place a stable
\* descending sort gives it: after every higher score and after the earlier
\* outfits of the same score
AssembledScore(i) == ScoreOf(outfits[i], ctx, model)

StablePlace(i) ==
    1 + Cardinality({ j \in 1..Len(outfits) : AssembledScore(j) > AssembledScore(i) })
      + Cardinality({ j \in 1..(i - 1) : AssembledScore(j) = AssembledScore(i) })

\* C27: the recommendations are the first min(top_n, n) outfits of the stable
\* descending order by score, ranked 1, 2, ... with non-increasing overall_score.
C27_StableDescendingTopN ==
    pc = "done" =>
        /\ Len(recs) = Min(top_n, Len(outfits))
        /\ \A i \in 1..Len(outfits) :
              StablePlace(i) <= Len(recs) =>
                  /\ recs[StablePlace(i)].rank = StablePlace(i)
                  /\ recs[StablePlace(i)].overall_score = AssembledScore(i)
                  /\ RecIds(recs[StablePlace(i)]) = OutfitIds(outfits[i])
        /\ \A r \in 1..(Len(recs) - 1) : recs[r].overall_score >= recs[r + 1].overall_score

C27_Witness ==
    /\ pc = "done"
    /\ Len(outfits) > top_n
    /\ \E i, j, k \in 1..Len(outfits) :
          /\ i < j /\ j < k
          /\ OutfitIds(outfits[i]) # OutfitIds(outfits[j])
          /\ AssembledScore(i) = AssembledScore(j)
          /\ AssembledScore(k) > AssembledScore(i)
          /\ StablePlace(j) <= Len(recs)

\* C28: retrieve_candidates returns distinct catalog items, at most
\* min(top_k, catalog size) of them, each the item the index ranked at its slot.
C28_DistinctCandidates ==
    pc # "start" =>
        /\ Len(candidates) <= Min(TopK, Len(items))
        /\ \A i, j \in 1..Len(candidates) : i # j => candidates[i] # candidates[j]
        /\ \A i \in 1..Len(candidates) : i <= Len(order) /\ candidates[i] = items[order[i]]

\* C29: on every non-empty outfit and context, featurize_combo_for_model returns
\* the five values of train.featurize_combo, in the same order.
C29_FeaturizersAgree ==
    (f_pc = "done" /\ f_combo # <<>>) => f_feats = f_train_feats

C29_Witness ==
    /\ f_pc = "done"
    /\ Len(f_combo) = 3
    /\ Cardinality(f_ctx.styles) = 2
    /\ f_train_feats[1] = 1
    /\ f_train_feats[2] = 2 * (RatioUnit \div 3)
    /\ f_train_feats[3] = RatioUnit \div 3
    /\ f_feats = f_train_feats

\* C30: every item of a catalog taken from Step 1 has a role among top, bottom,
\* dress, set and other, so a request over it assembles no outfit and returns
\* no recommendation.
C30_Step1CatalogHasNoShoes ==
    /\ pc # "step1" =>
           /\ Len(items) = Len(step1)
           /\ \A i \in 1..Len(items) :
                 items[i].role \in {"top", "bottom", "dress", "set", "other"}
    /\ pc \in {"assembled", "scored", "done"} => outfits = <<>>
    /\ pc = "done" => recs = <<>>

C30_Witness ==
    /\ pc = "done"
    /\ recs = <<>>
    /\ Len(items) = 3
    /\ \E i, j, k \in 1..Len(items) :
          /\ items[i].role = "top"
          /\ items[j].role = "bottom"
          /\ items[k].role = "other" /\ step1[k].category = <<"S", "h", "o", "e", "s">>

====
